---- MODULE Spec2Model ----
(***************************************************************************)
(* Model of the bevy-scratchpad soft-body simulation                       *)
(* (src/src/physics/{point,soft_body,systems,mod}.rs, src/src/config.rs).  *)
(*                                                                         *)
(* Arithmetic.  The program computes in f32.  The model computes in fixed  *)
(* point: a length of 1 in the model is 1/16 world unit, a time of 1 is    *)
(* one fixed tick (dt = 1/PHYSICS_HZ), and every operation rounds its real *)
(* result to the nearest integer, halves away from zero (so that, as in    *)
(* IEEE arithmetic, -(x/y) and (-x)/y agree).  A Vec2 is a pair <<x, y>>.  *)
(***************************************************************************)
EXTENDS Integers, Sequences, FiniteSets, TLC

VARIABLES
    \* ---- the simulation (SpecStep, SpecSolve, Spec)
    q_points,       \* Query<&mut Point>: entity -> its Point component
    live,           \* the entities that still carry a Point (q_points.get is Ok)
    q_tf,           \* Query<&mut Transform>: entity -> translation.xy
    soft,           \* the SoftBody component
    half,           \* WorldBounds.half
    eff,            \* EffectorState
    pressed,        \* ButtonInput<MouseButton>.pressed(Left)
    pc,             \* where softbody_step stands: "idle", "solve", "write"
    iter,           \* solver iterations of this tick already run
    ticks,          \* fixed ticks started so far
    before,         \* q_points as the last integration pass found it
    iter_in,        \* ring positions the last solver iteration read
    disp_accum,     \* the last solver iteration's disp_accum
    disp_weight,    \* the last solver iteration's disp_weight
    corrections,    \* the last solver iteration's dilation_corrections
    dirty,          \* OutlineDirty.0
    polyline,       \* the vertices of the BlobOutline polyline asset (x, y)
    \* ---- the frame loop (Spec)
    sched,          \* the schedule the frame stands in
    todo,           \* systems of Update that have not run yet this frame
    frames,         \* render frames started so far
    \* ---- a pure function under check (SpecCollide, SpecChaikin)
    arg,            \* its arguments
    ret,            \* what the call left behind
    called          \* FALSE before the call, TRUE after it

schedVars == <<sched, todo, frames>>

simVars == <<q_points, live, q_tf, soft, half, eff, pressed, pc, iter, ticks,
             before, iter_in, disp_accum, disp_weight, corrections, dirty,
             polyline, schedVars>>

pureVars == <<arg, ret, called>>

vars == <<simVars, pureVars>>

----------------------------------------------------------------------------
(* Scalar and Vec2 arithmetic (glam::Vec2 as used by the program).          *)

Abs(x) == IF x < 0 THEN -x ELSE x

Sgn(x) == IF x < 0 THEN -1 ELSE IF x > 0 THEN 1 ELSE 0

\* a / b for b > 0, rounded to nearest, halves away from zero.
RoundDiv(a, b) == Sgn(a) * ((2 * Abs(a) + b) \div (2 * b))

RECURSIVE SqrtSearch(_, _, _)
\* Largest s in lo..hi with s * s <= n  (lo * lo <= n < (hi + 1)^2).
SqrtSearch(n, lo, hi) ==
    IF lo >= hi THEN lo
    ELSE LET mid == (lo + hi + 1) \div 2
         IN  IF mid * mid <= n THEN SqrtSearch(n, mid, hi)
                               ELSE SqrtSearch(n, lo, mid - 1)

\* f32::sqrt of n >= 0, rounded to nearest.
Sqrt(n) ==
    LET s == SqrtSearch(n, 0, IF n < 65536 THEN 255 ELSE IF n < 16777216 THEN 4095 ELSE 46340)
    IN  IF n - s * s > s THEN s + 1 ELSE s

ZERO == <<0, 0>>

VAdd(u, v) == <<u[1] + v[1], u[2] + v[2]>>

VSub(u, v) == <<u[1] - v[1], u[2] - v[2]>>

VNeg(u) == <<-u[1], -u[2]>>

Dot(u, v) == u[1] * v[1] + u[2] * v[2]

LengthSquared(u) == Dot(u, u)

Length(u) == Sqrt(LengthSquared(u))

\* Extra fractional bits kept while normalising, so that a short vector is
\* normalised as precisely as a long one (f32 keeps 24 significant bits at
\* every magnitude) while every product stays below 2^31.
NormPrecision(d2) ==
    IF d2 < 1024 THEN 1024
    ELSE IF d2 < 16384 THEN 256
    ELSE IF d2 < 4194304 THEN 16
    ELSE 1

\* d.normalize() * (mnum / mden), for d # ZERO and mden > 0: each
\* component of d / |d| * (mnum / mden), rounded.
NormalizeFrac(d, mnum, mden) ==
    LET d2 == LengthSquared(d)
        k  == NormPrecision(d2)
        lk == Sqrt(d2 * k * k)
    IN  <<RoundDiv(d[1] * mnum * k, lk * mden), RoundDiv(d[2] * mnum * k, lk * mden)>>

\* d.normalize() * m, for d # ZERO.
NormalizeScaled(d, m) == NormalizeFrac(d, m, 1)

----------------------------------------------------------------------------
(* systems.rs: the swept effector collider.                                *)

\* f32::clamp(t, 0, 1) on the numerator of t = c / len2.
ClampNum(c, len2) == IF c < 0 THEN 0 ELSE IF c > len2 THEN len2 ELSE c

\* A faulty variant: the projection parameter is not clamped to the segment.
collide_unclamped(p, seg_a, seg_b, r) ==
    LET seg      == VSub(seg_b, seg_a)
        seg_len2 == LengthSquared(seg)
    IN  IF seg_len2 <= 0
        THEN LET d  == VSub(p, seg_b)
                 d2 == LengthSquared(d)
             IN  IF d2 < r * r /\ d2 > 0
                 THEN VAdd(seg_b, NormalizeScaled(d, r))
                 ELSE p
        ELSE LET c  == Dot(VSub(p, seg_a), seg)
                 q  == VAdd(seg_a, <<RoundDiv(c * seg[1], seg_len2),
                                     RoundDiv(c * seg[2], seg_len2)>>)
                 d  == VSub(p, q)
                 d2 == LengthSquared(d)
             IN  IF d2 < r * r /\ d2 > 0
                 THEN VAdd(q, NormalizeScaled(d, r))
                 ELSE p

\* A faulty variant: the capsule test is against the diameter instead of the radius.
collide_wide(p, seg_a, seg_b, r) ==
    LET seg      == VSub(seg_b, seg_a)
        seg_len2 == LengthSquared(seg)
    IN  IF seg_len2 <= 0
        THEN LET d  == VSub(p, seg_b)
                 d2 == LengthSquared(d)
             IN  IF d2 < 4 * r * r /\ d2 > 0
                 THEN VAdd(seg_b, NormalizeScaled(d, r))
                 ELSE p
        ELSE LET c  == ClampNum(Dot(VSub(p, seg_a), seg), seg_len2)
                 q  == VAdd(seg_a, <<RoundDiv(c * seg[1], seg_len2),
                                     RoundDiv(c * seg[2], seg_len2)>>)
                 d  == VSub(p, q)
                 d2 == LengthSquared(d)
             IN  IF d2 < 4 * r * r /\ d2 > 0
                 THEN VAdd(q, NormalizeScaled(d, r))
                 ELSE p

\* collide_point_with_swept_effector(p, seg_a, seg_b, r): the value of *p
\* on return.  The guards 1e-12 are below one model unit squared, so
\* "<= 1e-12" is "<= 0" and "> 1e-12" is "> 0" on the model's integers.
collide_point_with_swept_effector(p, seg_a, seg_b, r) ==
    LET seg      == VSub(seg_b, seg_a)
        seg_len2 == LengthSquared(seg)
    IN  IF seg_len2 <= 0
        THEN \* no motion this frame: circle at seg_b
             LET d  == VSub(p, seg_b)
                 d2 == LengthSquared(d)
             IN  IF d2 < r * r /\ d2 > 0
                 THEN VAdd(seg_b, NormalizeScaled(d, r))
                 ELSE p
        ELSE \* closest point q on the segment, t = c / seg_len2 clamped to [0, 1]
             LET c  == ClampNum(Dot(VSub(p, seg_a), seg), seg_len2)
                 q  == VAdd(seg_a, <<RoundDiv(c * seg[1], seg_len2),
                                     RoundDiv(c * seg[2], seg_len2)>>)
                 d  == VSub(p, q)
                 d2 == LengthSquared(d)
             IN  IF d2 < r * r /\ d2 > 0
                 THEN VAdd(q, NormalizeScaled(d, r))
                 ELSE p

----------------------------------------------------------------------------
(* The two halves of the state: a specification of a pure function keeps   *)
(* the simulation empty, and a specification of the simulation makes no    *)
(* call of its own.                                                        *)

\* No frame loop: softbody_step is all that runs.
NoSchedule == sched = "softbody_step" /\ todo = {} /\ frames = 0

NoSimulation ==
    /\ NoSchedule /\ dirty = FALSE /\ polyline = <<>>
    /\ q_points = <<>> /\ live = {} /\ q_tf = <<>>
    /\ soft = <<>> /\ half = ZERO /\ eff = <<>> /\ pressed = FALSE
    /\ pc = "idle" /\ iter = 0 /\ ticks = 0
    /\ before = <<>> /\ iter_in = <<>>
    /\ disp_accum = <<>> /\ disp_weight = <<>> /\ corrections = <<>>

NoCall == arg = <<>> /\ ret = <<>> /\ called = FALSE

----------------------------------------------------------------------------
(* Inputs of the pure-function specifications.                             *)

\* Coordinates of the inputs are whole world units in -MaxCoord..MaxCoord.
MaxCoord == 2

\* Effector radii are whole world units in 0..MaxRadius.
MaxRadius == 2

Coords == {16 * k : k \in -MaxCoord..MaxCoord}

Positions == Coords \X Coords

Radii == {16 * k : k \in 0..MaxRadius}

----------------------------------------------------------------------------
(* SpecCollide: collide_point_with_swept_effector on every input.          *)

InitCollide ==
    /\ arg \in [p : Positions, seg_a : Positions, seg_b : Positions, r : Radii]
    /\ ret = arg.p
    /\ called = FALSE
    /\ NoSimulation

Collide ==
    /\ ~called
    /\ ret' = collide_point_with_swept_effector(arg.p, arg.seg_a, arg.seg_b, arg.r)
    /\ called' = TRUE
    /\ UNCHANGED <<arg, simVars>>

NextCollide == Collide

SpecCollide == InitCollide /\ [][NextCollide]_vars

----------------------------------------------------------------------------
(* Geometry the claims about the collider are stated in, computed exactly   *)
(* on the integer inputs and independently of the collider.                 *)

\* Numerator and denominator of the squared distance from p to the nearest
\* point of the clamped segment [a, b].
SegDist2(p, a, b) ==
    LET seg == VSub(b, a)
        l2  == LengthSquared(seg)
        pa  == VSub(p, a)
        c   == Dot(pa, seg)
    IN  IF l2 = 0 THEN <<LengthSquared(VSub(p, b)), 1>>
        ELSE IF c <= 0 THEN <<LengthSquared(pa), 1>>
        ELSE IF c >= l2 THEN <<LengthSquared(VSub(p, b)), 1>>
        ELSE <<LengthSquared(pa) * l2 - c * c, l2>>

\* p lies strictly inside the capsule of radius r around [a, b].
InsideCapsule(p, a, b, r) ==
    LET d == SegDist2(p, a, b) IN d[1] < r * r * d[2]

\* p is farther than r from every point of [a, b].
OutsideCapsule(p, a, b, r) ==
    LET d == SegDist2(p, a, b) IN d[1] > r * r * d[2]

\* p is itself a point of [a, b].
OnSegment(p, a, b) == SegDist2(p, a, b)[1] = 0

\* The nearest point of [a, b] to p (b when a = b), to the nearest unit.
NearestOnSegment(p, a, b) ==
    LET seg == VSub(b, a)
        l2  == LengthSquared(seg)
        c   == Dot(VSub(p, a), seg)
    IN  IF l2 = 0 THEN b
        ELSE IF c <= 0 THEN a
        ELSE IF c >= l2 THEN b
        ELSE VAdd(a, <<RoundDiv(c * seg[1], l2), RoundDiv(c * seg[2], l2)>>)

Cross(u, v) == u[1] * v[2] - u[2] * v[1]

\* |x - q| = r to within one model unit (the rounding of the result).
AtDistance(x, q, r) ==
    LET d2 == LengthSquared(VSub(x, q))
    IN  /\ d2 <= (r + 1) * (r + 1)
        /\ r >= 1 => d2 >= (r - 1) * (r - 1)

\* x lies on the ray from q through p, to within one model unit.
OnRay(x, q, p) ==
    LET d == VSub(p, q)
        e == VSub(x, q)
    IN  /\ Dot(e, d) > 0
        /\ Cross(e, d) * Cross(e, d) <= LengthSquared(d)

\* The original statement of C1: every position strictly inside the capsule
\* is relocated to distance r from its nearest segment point q, along the
\* direction from q to the original position.
C1_EveryInsidePointRelocated ==
    (called /\ InsideCapsule(arg.p, arg.seg_a, arg.seg_b, arg.r)) =>
        LET q == NearestOnSegment(arg.p, arg.seg_a, arg.seg_b)
        IN  AtDistance(ret, q, arg.r)

\* C1 (amended): a position strictly inside the capsule that is not itself
\* a point of the segment is relocated to distance r from its nearest
\* segment point q (q = b when a = b), along the direction from q to the
\* original position.
C1_InsidePointRelocated ==
    (/\ called
     /\ InsideCapsule(arg.p, arg.seg_a, arg.seg_b, arg.r)
     /\ ~OnSegment(arg.p, arg.seg_a, arg.seg_b)) =>
        LET q == NearestOnSegment(arg.p, arg.seg_a, arg.seg_b)
        IN  /\ AtDistance(ret, q, arg.r)
            /\ OnRay(ret, q, arg.p)

\* A particle beside the interior of a moving segment has been pushed out.
C1_Witness ==
    /\ called
    /\ arg.seg_a # arg.seg_b
    /\ InsideCapsule(arg.p, arg.seg_a, arg.seg_b, arg.r)
    /\ ~OnSegment(arg.p, arg.seg_a, arg.seg_b)
    /\ NearestOnSegment(arg.p, arg.seg_a, arg.seg_b) \notin {arg.seg_a, arg.seg_b}
    /\ ret # arg.p

\* C10: a position farther than r from every point of [a, b] (from b when
\* a = b) is returned unmodified.
C10_OutsidePointUnmodified ==
    (called /\ OutsideCapsule(arg.p, arg.seg_a, arg.seg_b, arg.r)) => ret = arg.p

\* A near miss: the particle is outside the capsule of a moving segment but
\* within two radii of it, and the call has returned.
C10_Witness ==
    /\ called
    /\ arg.seg_a # arg.seg_b
    /\ arg.r > 0
    /\ OutsideCapsule(arg.p, arg.seg_a, arg.seg_b, arg.r)
    /\ InsideCapsule(arg.p, arg.seg_a, arg.seg_b, 2 * arg.r)
    /\ ret = arg.p

----------------------------------------------------------------------------
(* systems.rs: one pass of Chaikin corner cutting over a closed ring.      *)

\* Vec2::lerp(a, b, num / den) = a + (b - a) * (num / den).
Lerp(a, b, num, den) ==
    LET d == VSub(b, a)
    IN  VAdd(a, <<RoundDiv(d[1] * num, den), RoundDiv(d[2] * num, den)>>)

\* A faulty variant: the last edge is not closed back to the first point.
chaikin_open(input, out) ==
    LET n == Len(input)
    IN  IF n < 3 THEN input
        ELSE [j \in 1..(2 * n) |->
                LET i == (j + 1) \div 2
                    a == input[i]
                    b == input[IF i = n THEN n ELSE i + 1]
                IN  IF j % 2 = 1 THEN Lerp(a, b, 1, 4) ELSE Lerp(a, b, 3, 4)]

\* A faulty variant: the output buffer is not cleared first.
chaikin_appending(input, out) ==
    LET n == Len(input)
    IN  IF n < 3 THEN out \o input
        ELSE out \o [j \in 1..(2 * n) |->
                LET i == (j + 1) \div 2
                    a == input[i]
                    b == input[(i % n) + 1]
                IN  IF j % 2 = 1 THEN Lerp(a, b, 1, 4) ELSE Lerp(a, b, 3, 4)]

\* chaikin_closed_once(input, out): the contents of `out` on return.  `out`
\* is cleared first, so its old contents do not reach the result.  Sequences
\* are indexed from 1: input[i] is the code's input[i - 1], and the code's
\* (i + 1) % n is (i % n) + 1 here.
chaikin_closed_once(input, out) ==
    LET n == Len(input)
    IN  IF n < 3 THEN input
        ELSE [j \in 1..(2 * n) |->
                LET i == (j + 1) \div 2
                    a == input[i]
                    b == input[(i % n) + 1]
                IN  IF j % 2 = 1 THEN Lerp(a, b, 1, 4) ELSE Lerp(a, b, 3, 4)]

----------------------------------------------------------------------------
(* SpecChaikin: chaikin_closed_once on every ring of up to MaxRing points. *)

\* Longest input ring.
MaxRing == 4

\* Ring points have whole world-unit coordinates in 0..MaxSide.
MaxSide == 1

RingPoints == {16 * k : k \in 0..MaxSide} \X {16 * k : k \in 0..MaxSide}

Rings == UNION {[1..n -> RingPoints] : n \in 0..MaxRing}

\* What the output buffer holds before the call: nothing, or an older ring.
StaleBuffers == {<<>>, <<ZERO, ZERO, ZERO>>}

InitChaikin ==
    /\ arg \in [input : Rings, out : StaleBuffers]
    /\ ret = arg
    /\ called = FALSE
    /\ NoSimulation

Chaikin ==
    /\ ~called
    /\ ret' = [input |-> arg.input, out |-> chaikin_closed_once(arg.input, arg.out)]
    /\ called' = TRUE
    /\ UNCHANGED <<arg, simVars>>

NextChaikin == Chaikin

SpecChaikin == InitChaikin /\ [][NextChaikin]_vars

\* C9: a ring of N >= 3 points is smoothed to exactly 2N points, the points
\* 2i and 2i+1 (counted from 0) lying at parameters 1/4 and 3/4 of the cyclic
\* edge (i, (i+1) mod N); a ring of fewer than 3 points is returned as it is;
\* the old contents of the output buffer are gone and the input is unchanged.
C9_ChaikinDoublesClosedRing ==
    called =>
        LET n == Len(arg.input)
        IN  /\ ret.input = arg.input
            /\ n < 3 => ret.out = arg.input
            /\ n >= 3 =>
                /\ Len(ret.out) = 2 * n
                /\ \A i \in 0..(n - 1) :
                     LET a == arg.input[i + 1]
                         b == arg.input[((i + 1) % n) + 1]
                         u == ret.out[2 * i + 1]
                         v == ret.out[2 * i + 2]
                     IN  /\ 4 * u[1] = 3 * a[1] + b[1]
                         /\ 4 * u[2] = 3 * a[2] + b[2]
                         /\ 4 * v[1] = a[1] + 3 * b[1]
                         /\ 4 * v[2] = a[2] + 3 * b[2]

\* A ring of at least three points, not all the same, has been smoothed over
\* a buffer that held an older ring.
C9_Witness ==
    /\ called
    /\ Len(arg.input) >= 3
    /\ arg.input[Len(arg.input)] # arg.input[1]
    /\ arg.out # <<>>
    /\ Len(ret.out) = 2 * Len(arg.input)

----------------------------------------------------------------------------
(* config.rs, in model units (length 1/16 world unit, time one tick).      *)

\* GRAVITY * dt * dt: (0, -980) / 120^2 world units = (0, -1.09) model units.
GRAVITY == <<0, -1>>

\* DAMPING_PER_SECOND.powf(dt) = 0.5^(1/120) = 0.99424 = DampNum / DampDen.
DampNum == 9942

DampDen == 10000

CONSTRAINT_ITERATIONS == 10

\* std::f32::consts::PI = PiNum / PiDen.
PiNum == 22

PiDen == 7

\* PUFFINESS = 1.25, as a fraction <<numerator, denominator>>.
PUFFINESS == <<5, 4>>

\* MOUSE_RADIUS = 40.0 world units.
MOUSE_RADIUS == 640

\* EffectorState::default()
EffectorDefault == [radius |-> MOUSE_RADIUS, prev |-> ZERO, curr |-> ZERO]

----------------------------------------------------------------------------
(* point.rs: the particle.                                                 *)

\* Point::new(pos, index), with the defaults of Point::default.
PointNew(pos, index) ==
    [index |-> index, position |-> pos, previous_position |-> pos,
     acceleration |-> ZERO, mass |-> 1, radius |-> 80, bounciness |-> <<1, 2>>]

\* Point::with_initial_velocity(pos, v0, dt, index); v0dt is v0 * dt.
PointWithInitialVelocity(pos, v0dt, index) ==
    [PointNew(pos, index) EXCEPT !.previous_position = VSub(pos, v0dt)]

----------------------------------------------------------------------------
(* soft_body.rs: construction.                                             *)

\* The f32 quotient circumference / 0.0: +inf (NaN when the circumference is
\* 0 too), a chord length that no edge length exceeds.
INFINITY == 2^30

\* SoftBody::new(num_points, radius, puffiness); puffiness is a fraction.
\* `points` is pushed afterwards by spawn_soft_body.
SoftBodyNew(num_points, radius, puffiness) ==
    LET desired_area  == RoundDiv(RoundDiv(PiNum * radius * radius, PiDen) * puffiness[1],
                                  puffiness[2])
        circumference == RoundDiv(2 * PiNum * radius, PiDen)
        chord_length  == IF num_points = 0 THEN INFINITY
                         ELSE RoundDiv(circumference, num_points)
    IN  [points |-> <<>>, num_points |-> num_points, radius |-> radius,
         puffiness |-> puffiness, desired_area |-> desired_area,
         circumference |-> circumference, chord_length |-> chord_length]

\* 1024 * cos(j * TAU / 16), j in 0..15.
Cos16(j) ==
    LET c == <<1024, 946, 724, 392, 0>>
        m == j % 16
    IN  IF m <= 4 THEN c[m + 1]
        ELSE IF m <= 8 THEN -c[8 - m + 1]
        ELSE IF m <= 12 THEN -c[m - 8 + 1]
        ELSE c[16 - m + 1]

\* (cos theta, sin theta) * ring_radius for theta = i * TAU / num_points,
\* for the ring sizes that divide 16.
RingOffset(i, num_points, ring_radius) ==
    LET j == i * (16 \div num_points)
    IN  <<RoundDiv(Cos16(j) * ring_radius, 1024),
          RoundDiv(Cos16(j + 12) * ring_radius, 1024)>>

\* The particle spawn_soft_body creates for ring index i (counted from 0).
SpawnedPoint(i, center, num_points, ring_radius, v0dt, gravity, particle_vis_radius, mass, bounciness) ==
    LET curr == VAdd(center, RingOffset(i, num_points, ring_radius))
    IN  [PointWithInitialVelocity(curr, v0dt, i) EXCEPT
            !.mass = mass, !.radius = particle_vis_radius,
            !.bounciness = bounciness, !.acceleration = gravity]

\* The state after spawn_soft_body(center, num_points, ring_radius,
\* initial_vel, gravity, particle_vis_radius, mass, bounciness): entity e in
\* 1..num_points carries the particle of ring index e - 1.
spawn_soft_body(center, num_points, ring_radius, v0dt, gravity, particle_vis_radius, mass, bounciness) ==
    LET pts == [e \in 1..num_points |->
                   SpawnedPoint(e - 1, center, num_points, ring_radius, v0dt,
                                gravity, particle_vis_radius, mass, bounciness)]
    IN  /\ q_points = pts
        /\ live = 1..num_points
        /\ q_tf = [e \in 1..num_points |-> pts[e].position]
        /\ soft = [SoftBodyNew(num_points, ring_radius, PUFFINESS) EXCEPT
                      !.points = [e \in 1..num_points |-> e]]

----------------------------------------------------------------------------
(* soft_body.rs: softbody_step, phase 1 (integration and wall bounce).     *)

\* v * bounciness, bounciness a fraction.
TimesBounciness(v, b) == RoundDiv(v * b[1], b[2])

\* (x_t - x_tm1) * damping_per_tick
Damped(v) == <<RoundDiv(v[1] * DampNum, DampDen), RoundDiv(v[2] * DampNum, DampDen)>>

\* let a = p.acceleration + GRAVITY;
TotalAcceleration(p) == VAdd(p.acceleration, GRAVITY)

\* A wall that stops a particle without turning it round: the position is
\* clamped and the velocity kept.
bounce_without_reflection(x, v, lo, hi, b) ==
    LET x1 == IF x < lo THEN lo ELSE x
        x2 == IF x1 > hi THEN hi ELSE x1
    IN  <<x2, v>>

\* The bounce of Point::bounce_in_bounds: the second test is taken only
\* when the first one fails (`if .. else if ..`).
bounce_else_if(x, v, lo, hi, b) ==
    IF x < lo THEN <<lo, TimesBounciness(-v, b)>>
    ELSE IF x > hi THEN <<hi, TimesBounciness(-v, b)>>
    ELSE <<x, v>>

\* One axis of the bounce: <<x_tp1, v>> after the two tests
\* `if x < lo {..}` and `if x > hi {..}`, taken one after the other.
BounceAxis(x, v, lo, hi, b) ==
    LET x1 == IF x < lo THEN lo ELSE x
        v1 == IF x < lo THEN TimesBounciness(-v, b) ELSE v
        x2 == IF x1 > hi THEN hi ELSE x1
        v2 == IF x1 > hi THEN TimesBounciness(-v1, b) ELSE v1
    IN  <<x2, v2>>

\* The body of the integration loop for one particle (dt2 = 1).
IntegratePoint(p, h) ==
    LET x_t      == p.position
        x_tm1    == p.previous_position
        a        == TotalAcceleration(p)
        vel_term == Damped(VSub(x_t, x_tm1))
        x_tp1    == VAdd(VAdd(x_t, vel_term), a)
        v        == VSub(x_tp1, x_t)
        bx       == BounceAxis(x_tp1[1], v[1], -h[1] + p.radius, h[1] - p.radius,
                               p.bounciness)
        by       == BounceAxis(x_tp1[2], v[2], -h[2] + p.radius, h[2] - p.radius,
                               p.bounciness)
        x_new    == <<bx[1], by[1]>>
        v_new    == <<bx[2], by[2]>>
    IN  [p EXCEPT !.previous_position = VSub(x_new, v_new),
                  !.position = x_new,
                  !.acceleration = ZERO]

\* Phase 1 over the ring: a handle that no longer resolves is skipped.
Integrated(pts) ==
    [e \in DOMAIN pts |->
        IF e \in live /\ \E i \in 1..Len(soft.points) : soft.points[i] = e
        THEN IntegratePoint(pts[e], half)
        ELSE pts[e]]

----------------------------------------------------------------------------
(* soft_body.rs: softbody_step, phase 2 (one solver iteration).            *)

\* q_points.get(e).ok().map(|p| p.position).unwrap_or(Vec2::ZERO)
PositionOrZero(pts, e) == IF e \in live THEN pts[e].position ELSE ZERO

\* The ring as the iteration reads it: entry i is the code's index i - 1.
RingPositions(pts) == [i \in 1..Len(soft.points) |-> PositionOrZero(pts, soft.points[i])]

\* A faulty variant: the successor index without the wrap-around.
next_index_unwrapped(i, n) == i + 1

\* The code's (i + 1) % n and (i + n - 1) % n on indices counted from 1.
NextIndex(i, n) == (i % n) + 1

PrevIndex(i, n) == ((i + n - 2) % n) + 1

\* Whether `len > 0.0 && len > chord_length` holds for the edge vector diff.
Stretched(diff, chord_length) ==
    LET d2 == LengthSquared(diff)
        k  == NormPrecision(d2)
        lk == Sqrt(d2 * k * k)
    IN  lk > 0 /\ lk > chord_length * k

\* An edge correction of the opposite sign: it pushes the two ends apart.
edge_offset_apart(diff, chord_length) ==
    LET d2 == LengthSquared(diff)
        k  == NormPrecision(d2)
        lk == Sqrt(d2 * k * k)
    IN  <<RoundDiv(diff[1] * (chord_length * k - lk), 2 * lk),
          RoundDiv(diff[2] * (chord_length * k - lk), 2 * lk)>>

\* offset = diff / len * error, error = (len - chord_length) * 0.5
EdgeOffset(diff, chord_length) ==
    LET d2 == LengthSquared(diff)
        k  == NormPrecision(d2)
        lk == Sqrt(d2 * k * k)
    IN  <<RoundDiv(diff[1] * (lk - chord_length * k), 2 * lk),
          RoundDiv(diff[2] * (lk - chord_length * k), 2 * lk)>>

\* What the body of the loop 2a adds to disp_accum[i] for the edge from i to
\* i_next (and subtracts from disp_accum[i_next]); ZERO when the test fails.
EdgeCorrection(poly, i) ==
    LET diff == VSub(poly[NextIndex(i, soft.num_points)], poly[i])
    IN  IF Stretched(diff, soft.chord_length)
        THEN EdgeOffset(diff, soft.chord_length)
        ELSE ZERO

\* What it adds to disp_weight[i] (and to disp_weight[i_next]).
EdgeCount(poly, i) ==
    LET diff == VSub(poly[NextIndex(i, soft.num_points)], poly[i])
    IN  IF Stretched(diff, soft.chord_length) THEN 1 ELSE 0

\* 2a) the loop `for i in 0..soft.num_points`: when it ends, particle i has
\* received +offset of its own edge and -offset of the edge before it.
DistancePass(poly) ==
    LET n == soft.num_points
    IN  [accum  |-> [i \in 1..n |-> VAdd(EdgeCorrection(poly, i),
                                         VNeg(EdgeCorrection(poly, PrevIndex(i, n))))],
         weight |-> [i \in 1..n |-> EdgeCount(poly, i)
                                      + EdgeCount(poly, PrevIndex(i, n))]]

\* One term of the loop of polygon_area_signed.
AreaTerm(pts, i) ==
    LET p == pts[i]
        q == pts[NextIndex(i, Len(pts))]
    IN  RoundDiv((p[1] - q[1]) * (p[2] + q[2]), 2)

RECURSIVE AreaSum(_, _, _)
\* The terms lo..hi of the loop of polygon_area_signed, summed by halves.
AreaSum(pts, lo, hi) ==
    IF lo > hi THEN 0
    ELSE IF lo = hi THEN AreaTerm(pts, lo)
    ELSE LET mid == (lo + hi) \div 2
         IN  AreaSum(pts, lo, mid) + AreaSum(pts, mid + 1, hi)

\* The shoelace sum without its factor 0.5: twice the area.
polygon_area_unhalved(pts) == IF Len(pts) < 3 THEN 0 ELSE 2 * AreaSum(pts, 1, Len(pts))

\* polygon_area_signed(pts)
polygon_area_signed(pts) == IF Len(pts) < 3 THEN 0 ELSE AreaSum(pts, 1, Len(pts))

\* The loop `for i in 0..n` of dilation_corrections: out[i] for every i.
DilationPass(poly, offset16) ==
    LET n == soft.num_points
    IN  [i \in 1..n |->
            LET prev   == poly[PrevIndex(i, n)]
                next   == poly[NextIndex(i, n)]
                secant == VSub(next, prev)
            IN  IF LengthSquared(secant) = 0 THEN ZERO
                ELSE NormalizeFrac(<<secant[2], -secant[1]>>, offset16, 16)]

\* Dilation with the error taken as area - desired_area: it deflates a
\* ring that is too small.
dilation_inverted(poly) ==
    LET area     == polygon_area_signed(poly)
        error    == area - soft.desired_area
        offset16 == IF soft.circumference # 0
                    THEN RoundDiv(error * 16, soft.circumference)
                    ELSE 0
    IN  DilationPass(poly, offset16)

\* dilation_corrections(soft, q_points), on the ring positions it gathers.
\* `offset` = error / circumference is kept to 1/16 of a model unit.
dilation_corrections(poly) ==
    LET area     == polygon_area_signed(poly)
        error    == soft.desired_area - area
        offset16 == IF soft.circumference # 0
                    THEN RoundDiv(error * 16, soft.circumference)
                    ELSE 0
    IN  DilationPass(poly, offset16)

\* A faulty variant: an area pass that counts a vertex only when its
\* correction is not zero.
area_pass_nonzero_only(c, st) ==
    [accum  |-> [i \in 1..Len(c) |-> VAdd(st.accum[i], c[i])],
     weight |-> [i \in 1..Len(c) |-> st.weight[i] + (IF c[i] = ZERO THEN 0 ELSE 1)]]

\* 2b) the loop `for (i, c) in corrections.into_iter().enumerate()`.
AreaPass(c, st) ==
    [accum  |-> [i \in 1..Len(c) |-> VAdd(st.accum[i], c[i])],
     weight |-> [i \in 1..Len(c) |-> st.weight[i] + 1]]

\* 2a + 2b: disp_accum and disp_weight when the apply step starts.
Accumulated(poly) ==
    LET st == DistancePass(poly)
        c  == dilation_corrections(poly)
        at == AreaPass(c, st)
    IN  [accum |-> at.accum, weight |-> at.weight, corrections |-> c]

\* An apply step that carries previous_position along with position, as
\* Point::set_position does.
applied_with_previous(pts, acc) ==
    [e \in DOMAIN pts |->
        IF e \in live /\ \E i \in 1..soft.num_points :
                             soft.points[i] = e /\ acc.weight[i] # 0
        THEN LET i   == CHOOSE i \in 1..soft.num_points : soft.points[i] = e
                 avg == <<RoundDiv(acc.accum[i][1], acc.weight[i]),
                          RoundDiv(acc.accum[i][2], acc.weight[i])>>
             IN  [pts[e] EXCEPT !.position = VAdd(@, avg),
                                !.previous_position = VAdd(@, avg)]
        ELSE pts[e]]

\* 2c) apply the average displacement; a missing particle is skipped.
Applied(pts, acc) ==
    [e \in DOMAIN pts |->
        IF e \in live /\ \E i \in 1..soft.num_points :
                             soft.points[i] = e /\ acc.weight[i] # 0
        THEN LET i   == CHOOSE i \in 1..soft.num_points : soft.points[i] = e
                 avg == <<RoundDiv(acc.accum[i][1], acc.weight[i]),
                          RoundDiv(acc.accum[i][2], acc.weight[i])>>
             IN  [pts[e] EXCEPT !.position = VAdd(@, avg)]
        ELSE pts[e]]

\* A projection pass that does not ask whether the button is pressed.
projected_always(pts) ==
    [e \in DOMAIN pts |->
        IF e \in live /\ \E i \in 1..soft.num_points : soft.points[i] = e
        THEN [pts[e] EXCEPT !.position =
                 collide_point_with_swept_effector(@, eff.prev, eff.curr, eff.radius)]
        ELSE pts[e]]

\* 2d) the effector projection pass, run while the left button is pressed.
Projected(pts) ==
    IF pressed
    THEN [e \in DOMAIN pts |->
            IF e \in live /\ \E i \in 1..soft.num_points : soft.points[i] = e
            THEN [pts[e] EXCEPT !.position =
                     collide_point_with_swept_effector(@, eff.prev, eff.curr, eff.radius)]
            ELSE pts[e]]
    ELSE pts

----------------------------------------------------------------------------
(* softbody_step as a process: integration, CONSTRAINT_ITERATIONS solver   *)
(* iterations, write-back.  Nothing else runs between its steps; where the *)
(* frame loop goes next is left to the specification (schedVars).          *)

\* Fixed ticks a behaviour runs.
MaxTicks == 2

\* --- 1) Verlet integrate all points
Integrate ==
    /\ sched = "softbody_step"
    /\ pc = "idle"
    /\ ticks < MaxTicks
    /\ ticks' = ticks + 1
    /\ before' = q_points
    /\ q_points' = Integrated(q_points)
    /\ pc' = IF CONSTRAINT_ITERATIONS > 0 THEN "solve" ELSE "write"
    /\ iter' = 0
    /\ UNCHANGED <<live, q_tf, soft, half, eff, pressed, iter_in, disp_accum,
                   disp_weight, corrections, dirty, polyline, pureVars>>

\* --- 2) one pass of `for _ in 0..CONSTRAINT_ITERATIONS`
Iterate ==
    /\ pc = "solve"
    /\ \E poly \in {RingPositions(q_points)} : \E acc \in {Accumulated(poly)} :
           /\ iter_in' = poly
           /\ disp_accum' = acc.accum
           /\ disp_weight' = acc.weight
           /\ corrections' = acc.corrections
           /\ q_points' = Projected(Applied(q_points, acc))
    /\ iter' = iter + 1
    /\ pc' = IF iter + 1 < CONSTRAINT_ITERATIONS THEN "solve" ELSE "write"
    /\ UNCHANGED <<live, q_tf, soft, half, eff, pressed, ticks, before, dirty,
                   polyline, pureVars>>

\* --- 3) write back to Transform for rendering
WriteBack ==
    /\ pc = "write"
    /\ q_tf' = [e \in DOMAIN q_tf |->
                  IF e \in live /\ \E i \in 1..Len(soft.points) : soft.points[i] = e
                  THEN q_points[e].position ELSE q_tf[e]]
    /\ pc' = "idle"
    /\ UNCHANGED <<q_points, live, soft, half, eff, pressed, iter, ticks, before,
                   iter_in, disp_accum, disp_weight, corrections, dirty, polyline,
                   pureVars>>

softbody_step == Integrate \/ Iterate \/ WriteBack

----------------------------------------------------------------------------
(* SpecStep: a body fresh from spawn_soft_body, in a small window, ticked. *)

\* Arguments of spawn_soft_body (lengths in model units).
StepCenters == {<<0, 0>>, <<16, 0>>, <<-16, 0>>, <<0, 16>>, <<0, -16>>}

StepVelocities == {<<0, 0>>, <<24, 0>>, <<-24, 10>>, <<0, -24>>, <<7, 24>>}

StepGravities == {ZERO, GRAVITY}

StepRadii == {0, 8}

StepBounciness == {<<0, 1>>, <<1, 2>>, <<1, 1>>}

\* WorldBounds.half; the last one is narrower than a particle of radius 8.
StepHalves == {<<48, 48>>, <<64, 40>>, <<4, 48>>}

NoHistory ==
    /\ pc = "idle" /\ iter = 0 /\ ticks = 0
    /\ before = <<>> /\ iter_in = <<>>
    /\ disp_accum = <<>> /\ disp_weight = <<>> /\ corrections = <<>>

InitStep ==
    /\ \E center \in StepCenters, v0dt \in StepVelocities, gravity \in StepGravities,
          radius \in StepRadii, bounciness \in StepBounciness :
            spawn_soft_body(center, 4, 32, v0dt, gravity, radius, 1, bounciness)
    /\ half \in StepHalves
    /\ eff = EffectorDefault
    /\ pressed = FALSE
    /\ dirty = TRUE /\ polyline = <<>>
    /\ NoSchedule
    /\ NoHistory
    /\ NoCall

NextStep ==
    \/ Integrate /\ UNCHANGED schedVars
    \/ Iterate /\ UNCHANGED schedVars
    \/ WriteBack /\ UNCHANGED schedVars

SpecStep == InitStep /\ [][NextStep]_vars

\* The integration pass of a tick has just run.
JustIntegrated == ticks > 0 /\ pc # "idle" /\ iter = 0

\* What C2 says of particle p0 (before the pass) and p1 (after it) on axis k.
BouncedOnAxis(p0, p1, k) ==
    LET lo       == -(half[k] - p0.radius)
        hi       == half[k] - p0.radius
        x_next   == p0.position[k]
                      + Damped(VSub(p0.position, p0.previous_position))[k]
                      + TotalAcceleration(p0)[k]
        incoming == x_next - p0.position[k]
        outgoing == p1.position[k] - p1.previous_position[k]
    IN  /\ lo <= p1.position[k] /\ p1.position[k] <= hi
        /\ x_next < lo => (p1.position[k] = lo
                           /\ outgoing = -TimesBounciness(incoming, p0.bounciness))
        /\ x_next > hi => (p1.position[k] = hi
                           /\ outgoing = -TimesBounciness(incoming, p0.bounciness))
        /\ (lo <= x_next /\ x_next <= hi) => (p1.position[k] = x_next
                                              /\ outgoing = incoming)

\* C2: with half_extent >= radius on both axes, the integration pass leaves
\* every particle within -(half_extent - radius)..(half_extent - radius) on
\* each axis; on an axis whose predicted position crossed a limit the
\* position is that limit and the new implicit velocity is -bounciness times
\* the incoming one; the other axes keep their velocity.
C2_BounceClampsAndReflects ==
    JustIntegrated =>
        \A e \in live :
            (half[1] >= before[e].radius /\ half[2] >= before[e].radius) =>
                /\ BouncedOnAxis(before[e], q_points[e], 1)
                /\ BouncedOnAxis(before[e], q_points[e], 2)

\* A particle with a restitution of 1/2 has just hit the right wall at
\* speed and come back at half of it.
C2_Witness ==
    /\ JustIntegrated
    /\ \E e \in live :
        /\ half[1] >= before[e].radius /\ half[2] >= before[e].radius
        /\ before[e].bounciness = <<1, 2>>
        /\ before[e].position[1] < half[1] - before[e].radius
        /\ q_points[e].position[1] = half[1] - before[e].radius
        /\ q_points[e].position[1] - q_points[e].previous_position[1] < 0

\* C4 as stated: in every tick, the first included, the acceleration a
\* particle is integrated with is the gravity vector, once.
C4_GravityAddedOncePerTick ==
    JustIntegrated => \A e \in live : TotalAcceleration(before[e]) = GRAVITY

----------------------------------------------------------------------------
(* SpecSolve: one tick of a body at rest whose ring has any shape on a     *)
(* grid.  The body is SoftBody::new(n, 56, puffiness): for n = 4 its       *)
(* chord_length is 88, and with puffiness 11/14 its desired_area is 88^2.  *)

\* Ring vertices lie on the grid {0, 88, .., 88 * MaxGrid}^2.
MaxGrid == 2

GridPoints == {88 * k : k \in 0..MaxGrid} \X {88 * k : k \in 0..MaxGrid}

\* Rings of 3 and 4 particles, the first one at the grid's origin.
SolveRings ==
    UNION {{r \in [1..n -> GridPoints] : r[1] = ZERO} : n \in {3, 4}}

\* A particle at rest at pos (Point::new, in a window it does not touch).
RestingPoint(pos, index) == [PointNew(pos, index) EXCEPT !.radius = 0]

\* The families of initial states: <<ring radius, puffiness, missing
\* entities, button pressed>>.
SolveCases ==
    { <<56, PUFFINESS, {}, FALSE>>,      \* area below the target
      <<56, <<11, 14>>, {}, FALSE>>,     \* target area = one grid cell
      <<56, PUFFINESS, {2}, FALSE>>,     \* the second handle no longer resolves
      <<56, PUFFINESS, {}, TRUE>>,       \* the effector is active
      <<0, PUFFINESS, {}, FALSE>> }      \* a body of radius 0: circumference 0

InitSolve ==
    /\ \E ring \in SolveRings, c \in SolveCases :
        LET n == Len(ring)
        IN  /\ q_points = [e \in 1..n |-> RestingPoint(ring[e], e - 1)]
            /\ q_tf = [e \in 1..n |-> ring[e]]
            /\ soft = [SoftBodyNew(n, c[1], c[2]) EXCEPT !.points = [e \in 1..n |-> e]]
            /\ live = (1..n) \ c[3]
            /\ pressed = c[4]
    /\ half = <<2048, 2048>>
    /\ eff = [EffectorDefault EXCEPT !.prev = <<-16, 40>>, !.curr = <<40, 40>>]
    /\ pc = "idle" /\ iter = 0 /\ ticks = MaxTicks - 1
    /\ before = <<>> /\ iter_in = <<>>
    /\ disp_accum = <<>> /\ disp_weight = <<>> /\ corrections = <<>>
    /\ dirty = TRUE /\ polyline = <<>>
    /\ NoSchedule
    /\ NoCall

NextSolve ==
    \/ Integrate /\ UNCHANGED schedVars
    \/ Iterate /\ UNCHANGED schedVars
    \/ WriteBack /\ UNCHANGED schedVars

SpecSolve == InitSolve /\ [][NextSolve]_vars

----------------------------------------------------------------------------
(* Ring geometry the solver claims are stated in, computed exactly on the  *)
(* positions an iteration read (iter_in) and independently of the solver.  *)

\* A solver iteration has run; iter_in, disp_* and corrections are its own.
Iterated == iter >= 1

RingSize == Len(iter_in)

\* The ring the iteration left behind.
IterOut == RingPositions(q_points)

AllResolve == \A i \in 1..Len(soft.points) : soft.points[i] \in live

\* The edge from index i to its cyclic successor, in ring r.
Edge(r, i) == VSub(r[NextIndex(i, Len(r))], r[i])

EdgeIsLong(r, i) == LengthSquared(Edge(r, i)) > soft.chord_length * soft.chord_length

EdgeIsExact(r, i) == LengthSquared(Edge(r, i)) = soft.chord_length * soft.chord_length

RECURSIVE ShoelaceFrom(_, _)
\* Twice the signed area of ring r (counter-clockwise positive), from index i.
ShoelaceFrom(r, i) ==
    IF i > Len(r) THEN 0
    ELSE LET a == r[i]
             b == r[NextIndex(i, Len(r))]
         IN  Cross(a, b) + ShoelaceFrom(r, i + 1)

TwiceArea(r) == IF Len(r) < 3 THEN 0 ELSE ShoelaceFrom(r, 1)

AreaOnTarget(r) == TwiceArea(r) = 2 * soft.desired_area

RECURSIVE VSum(_, _)
\* The sum of the positions of ring r from index i on.
VSum(r, i) == IF i > Len(r) THEN ZERO ELSE VAdd(r[i], VSum(r, i + 1))

\* Every corner of r turns left: r is strictly convex and counter-clockwise.
StrictlyConvexCCW(r) ==
    /\ Len(r) >= 3
    /\ \A i \in 1..Len(r) : Cross(Edge(r, i), Edge(r, NextIndex(i, Len(r)))) > 0

\* Len(r) * (r[i] - centroid of r): the direction from the centroid to vertex i.
FromCentroid(r, i) ==
    LET sum == VSum(r, 1)
    IN  <<Len(r) * r[i][1] - sum[1], Len(r) * r[i][2] - sum[2]>>

\* The secant across the neighbours of vertex i, turned a quarter clockwise.
SecantNormal(r, i) ==
    LET sec == VSub(r[NextIndex(i, Len(r))], r[PrevIndex(i, Len(r))])
    IN  <<sec[2], -sec[1]>>

\* x is a positive multiple of dir, to within one model unit of rounding.
AlongDirection(x, dir) ==
    /\ Dot(x, dir) > 0
    /\ Cross(x, dir) * Cross(x, dir) <= LengthSquared(dir)

----------------------------------------------------------------------------
(* C3, C6, C7, C8 under SpecSolve.                                         *)

\* The distance correction edge k of ring r moves onto vertex i.
EdgeShare(r, k, i) ==
    IF ~EdgeIsLong(r, k) THEN ZERO
    ELSE LET off == EdgeOffset(Edge(r, k), soft.chord_length)
         IN  VAdd(IF k = i THEN off ELSE ZERO,
                  IF NextIndex(k, Len(r)) = i THEN VNeg(off) ELSE ZERO)

\* Edge k joins two particles that both exist.
EdgeExists(k) ==
    soft.points[k] \in live /\ soft.points[NextIndex(k, Len(soft.points))] \in live

RECURSIVE ExistingEdgeSum(_, _, _)
\* What the stretched edges k.. between existing particles move onto vertex i.
ExistingEdgeSum(r, k, i) ==
    IF k > Len(r) THEN ZERO
    ELSE VAdd(IF EdgeExists(k) THEN EdgeShare(r, k, i) ELSE ZERO,
              ExistingEdgeSum(r, k + 1, i))

\* The stretched edges between existing particles that touch vertex i.
ExistingLongEdges(r, i) ==
    {k \in 1..Len(r) : /\ EdgeExists(k) /\ EdgeIsLong(r, k)
                        /\ (k = i \/ NextIndex(k, Len(r)) = i)}

\* C3 as stated, for the distance constraint: a handle that no longer
\* resolves contributes nothing, so an existing particle accumulates only the
\* corrections of its stretched edges to existing neighbours (and its own
\* area correction).
C3_MissingParticleContributesNothing ==
    Iterated =>
        \A i \in 1..RingSize :
            soft.points[i] \in live =>
                /\ disp_weight[i] = 1 + Cardinality(ExistingLongEdges(iter_in, i))
                /\ disp_accum[i] = VAdd(ExistingEdgeSum(iter_in, 1, i), corrections[i])

\* C6 as stated: a ring whose every edge is exactly chord_length long is
\* left unchanged by a solver iteration with the effector inactive.
C6_ExactRingUnchanged ==
    (/\ Iterated /\ ~pressed
     /\ \A i \in 1..RingSize : EdgeIsExact(iter_in, i)) => IterOut = iter_in

\* C6 (amended): a ring whose every edge is exactly chord_length long and
\* whose signed area equals desired_area is left unchanged by every solver
\* iteration with the effector inactive.
C6_ExactRingOnTargetUnchanged ==
    (/\ Iterated /\ ~pressed
     /\ \A i \in 1..RingSize : EdgeIsExact(iter_in, i)
     /\ AreaOnTarget(iter_in)) => IterOut = iter_in

\* All ten iterations ran on a square of side chord_length and target area.
C6_Witness ==
    /\ iter = CONSTRAINT_ITERATIONS /\ ~pressed
    /\ RingSize = 4
    /\ \A i \in 1..RingSize : EdgeIsExact(iter_in, i)
    /\ AreaOnTarget(iter_in)
    /\ soft.desired_area > 0

\* Edge i is the only edge of r longer than chord_length.
OnlyLongEdge(r, i) ==
    /\ EdgeIsLong(r, i)
    /\ \A k \in 1..Len(r) : k # i => ~EdgeIsLong(r, k)

\* What C7 says of the iteration when edge i was its only long edge.
RelaxedAndCentred(i) ==
    /\ LengthSquared(Edge(IterOut, i)) < LengthSquared(Edge(iter_in, i))
    /\ VSum(IterOut, 1) = VSum(iter_in, 1)
    /\ disp_accum[i] = VNeg(disp_accum[NextIndex(i, RingSize)])

\* How far the sum of the positions moved in the iteration, on the worse axis.
\* Rounding the RingSize divisions by the weights accounts for RingSize / 2.
CentroidDrift ==
    LET d == VSub(VSum(IterOut, 1), VSum(iter_in, 1))
    IN  IF Abs(d[1]) > Abs(d[2]) THEN Abs(d[1]) ELSE Abs(d[2])

\* C7 as stated: when exactly one edge is longer than chord_length, one
\* solver iteration makes that edge strictly shorter and leaves the sum of
\* the positions unchanged (to within the rounding of the iteration).
C7_OneLongEdgeRelaxes ==
    (Iterated /\ ~pressed /\ AllResolve) =>
        \A i \in 1..RingSize :
            OnlyLongEdge(iter_in, i) =>
                /\ LengthSquared(Edge(IterOut, i)) < LengthSquared(Edge(iter_in, i))
                /\ CentroidDrift <= RingSize

\* C7 (amended): when every particle of the ring exists, exactly one edge
\* (i, i+1) is longer than chord_length, the signed area equals desired_area
\* and the effector is inactive, one solver iteration makes that edge
\* strictly shorter and leaves the sum of the positions unchanged: what it
\* accumulates for particle i is the exact negative of what it accumulates
\* for particle i+1.
C7_OneLongEdgeOnTargetRelaxes ==
    (Iterated /\ ~pressed /\ AllResolve /\ AreaOnTarget(iter_in)) =>
        \A i \in 1..RingSize : OnlyLongEdge(iter_in, i) => RelaxedAndCentred(i)

\* An iteration ran on a ring of target area with exactly one long edge.
C7_Witness ==
    /\ Iterated /\ ~pressed /\ AllResolve /\ AreaOnTarget(iter_in)
    /\ soft.desired_area > 0
    /\ \E i \in 1..RingSize : OnlyLongEdge(iter_in, i) /\ disp_weight[i] = 2

\* error = desired_area - area, doubled, from the exact area.
TwiceAreaError(r) == 2 * soft.desired_area - TwiceArea(r)

\* C8: polygon_area_signed is the shoelace area (to within the rounding of
\* its RingSize halved terms), counter-clockwise positive;
\* on a strictly convex counter-clockwise ring every dilation correction
\* points away from the centroid when the area is below desired_area and
\* toward it when the area is above; the correction is zero when the area is
\* on target, when the circumference is 0 and where the secant is zero.
\* "Points away from the centroid": the correction is a positive multiple of
\* the secant normal (to within the rounding of its two components; it is
\* at least one model unit long once |error| >= circumference), and the
\* secant normal has a positive product with vertex - centroid.
C8_DilationPushesTowardTarget ==
    (Iterated /\ AllResolve) =>
        /\ Abs(2 * polygon_area_signed(iter_in) - TwiceArea(iter_in)) <= RingSize
        /\ (StrictlyConvexCCW(iter_in) /\ TwiceArea(iter_in) > RingSize) =>
              polygon_area_signed(iter_in) > 0
        /\ \A i \in 1..RingSize :
            LET c   == corrections[i]
                nrm == SecantNormal(iter_in, i)
                err == TwiceAreaError(iter_in)
            IN  /\ (nrm = ZERO \/ err = 0 \/ soft.circumference = 0) => c = ZERO
                /\ (StrictlyConvexCCW(iter_in) /\ soft.circumference # 0) =>
                    /\ Dot(nrm, FromCentroid(iter_in, i)) > 0
                    /\ err >= 2 * soft.circumference => AlongDirection(c, nrm)
                    /\ -err >= 2 * soft.circumference => AlongDirection(c, VNeg(nrm))
                    /\ err > 0 => Dot(c, nrm) >= 0
                    /\ err < 0 => Dot(c, nrm) <= 0

\* An iteration ran on a strictly convex counter-clockwise ring whose area
\* was above the target, and pulled a vertex in.
C8_Witness ==
    /\ Iterated /\ AllResolve
    /\ StrictlyConvexCCW(iter_in)
    /\ -TwiceAreaError(iter_in) >= 2 * soft.circumference
    /\ soft.circumference # 0
    /\ \E i \in 1..RingSize : Dot(corrections[i], FromCentroid(iter_in, i)) < 0

----------------------------------------------------------------------------
(* main.rs, mod.rs: the application.  A render frame runs the Main         *)
(* schedule: the input is refreshed (PreUpdate), RunFixedMainLoop runs     *)
(* FixedUpdate once for every fixed step that has elapsed (none in the     *)
(* first frame, whose elapsed time is zero), then Update runs its systems  *)
(* once each; PhysicsPlugin orders none of them against another.           *)
(* draw_effector_gizmo, exit_on_esc_or_q_if_native and                     *)
(* reset_substep_counter write nothing that is modelled.                   *)

\* Render frames a behaviour runs.
MaxFrames == 3

\* config.rs, in model units.
NUM_POINTS == 16

RING_RADIUS == 800

PARTICLE_VIS_RADIUS == 80

DEFAULT_MASS == 1

DEFAULT_BOUNCINESS == <<1, 1>>

\* INITIAL_VEL * dt: (100, 0) / 120 world units.
INITIAL_VEL == <<13, 0>>

\* The primary window (Window::default(): 1280 x 720), in model units.
WindowSize == <<20480, 11520>>

\* Where window.cursor_position() maps to when the cursor is in the window.
Cursors == {<<320, 800>>, <<0, 960>>}

\* spawn_demo_like_python: the demo body, at a third of the height from the top.
spawn_demo_like_python(win) ==
    LET half_y       == RoundDiv(win[2], 2)
        origin_world == <<0, half_y - RoundDiv(win[2], 3)>>
    IN  spawn_soft_body(origin_world, NUM_POINTS, RING_RADIUS, INITIAL_VEL, GRAVITY,
                        PARTICLE_VIS_RADIUS, DEFAULT_MASS, DEFAULT_BOUNCINESS)

\* The state after PhysicsPlugin::build and the Startup schedule.
Init ==
    /\ spawn_demo_like_python(WindowSize)
    /\ half = ZERO
    /\ eff = EffectorDefault
    /\ pressed = FALSE
    /\ dirty = TRUE
    /\ polyline = <<>>
    /\ sched = "PreUpdate" /\ todo = {} /\ frames = 0
    /\ NoHistory
    /\ NoCall

\* The systems PhysicsPlugin adds to Update that write modelled state.
UpdateSystems == {"update_world_bounds", "update_cursor_world", "update_blob_outline"}

\* A frame starts; bevy_input refreshes ButtonInput<MouseButton>.
PreUpdate ==
    /\ sched = "PreUpdate"
    /\ frames < MaxFrames
    /\ frames' = frames + 1
    /\ pressed' \in BOOLEAN
    /\ sched' = "RunFixedMainLoop"
    /\ UNCHANGED <<q_points, live, q_tf, soft, half, eff, pc, iter, ticks, before,
                   iter_in, disp_accum, disp_weight, corrections, dirty, polyline,
                   todo, pureVars>>

\* FixedUpdate starts with effector_swept_collision_system; softbody_step
\* runs after it.
effector_swept_collision_system ==
    /\ sched = "RunFixedMainLoop"
    /\ frames > 1
    /\ ticks < MaxTicks
    /\ q_points' = IF ~pressed THEN q_points
                   ELSE [e \in DOMAIN q_points |->
                           IF e \in live
                           THEN [q_points[e] EXCEPT !.position =
                                    collide_point_with_swept_effector(
                                        @, eff.prev, eff.curr, eff.radius)]
                           ELSE q_points[e]]
    /\ sched' = "softbody_step"
    /\ UNCHANGED <<live, q_tf, soft, half, eff, pressed, pc, iter, ticks, before,
                   iter_in, disp_accum, disp_weight, corrections, dirty, polyline,
                   todo, frames, pureVars>>

\* No fixed step is left to run in this frame: Update starts.
RunFixedMainLoopDone ==
    /\ sched = "RunFixedMainLoop"
    /\ sched' = "Update"
    /\ todo' = UpdateSystems
    /\ UNCHANGED <<q_points, live, q_tf, soft, half, eff, pressed, pc, iter, ticks,
                   before, iter_in, disp_accum, disp_weight, corrections, dirty,
                   polyline, frames, pureVars>>

\* System `system` of Update takes its turn; the frame ends with the last one.
RunsInUpdate(system) ==
    /\ sched = "Update"
    /\ system \in todo
    /\ todo' = todo \ {system}
    /\ sched' = IF todo = {system} THEN "PreUpdate" ELSE "Update"
    /\ UNCHANGED frames

update_world_bounds ==
    /\ RunsInUpdate("update_world_bounds")
    /\ half' = <<RoundDiv(WindowSize[1], 2), RoundDiv(WindowSize[2], 2)>>
    /\ UNCHANGED <<q_points, live, q_tf, soft, eff, pressed, pc, iter, ticks, before,
                   iter_in, disp_accum, disp_weight, corrections, dirty, polyline,
                   pureVars>>

\* eff.prev = eff.curr, then eff.curr follows the cursor if it is in the window.
update_cursor_world ==
    /\ RunsInUpdate("update_cursor_world")
    /\ \E world_pos \in Cursors \cup {eff.curr} :
           eff' = [eff EXCEPT !.prev = eff.curr, !.curr = world_pos]
    /\ UNCHANGED <<q_points, live, q_tf, soft, half, pressed, pc, iter, ticks, before,
                   iter_in, disp_accum, disp_weight, corrections, dirty, polyline,
                   pureVars>>

\* `for &e in &soft.points { if let Ok(p) = q_points.get(e) { ring.push(..) } }`
GatherRing(pts) ==
    LET found == SelectSeq(soft.points, LAMBDA e : e \in live)
    IN  [i \in 1..Len(found) |-> pts[found[i]].position]

\* The vertices update_blob_outline writes for the particles pts.
OutlineOf(pts) ==
    LET ring   == GatherRing(pts)
        smooth == chaikin_closed_once(ring, <<>>)
        src    == IF Len(smooth) >= 3 THEN smooth ELSE ring
    IN  IF Len(src) > 0 THEN Append(src, src[1]) ELSE src

update_blob_outline ==
    /\ RunsInUpdate("update_blob_outline")
    /\ IF ~dirty
       THEN UNCHANGED <<dirty, polyline>>
       ELSE /\ dirty' = FALSE
            /\ polyline' = OutlineOf(q_points)
    /\ UNCHANGED <<q_points, live, q_tf, soft, half, eff, pressed, pc, iter, ticks,
                   before, iter_in, disp_accum, disp_weight, corrections, pureVars>>

Next ==
    \/ PreUpdate
    \/ effector_swept_collision_system
    \/ Integrate /\ UNCHANGED schedVars
    \/ Iterate /\ UNCHANGED schedVars
    \/ WriteBack /\ sched' = "RunFixedMainLoop" /\ UNCHANGED <<todo, frames>>
    \/ RunFixedMainLoopDone
    \/ update_world_bounds
    \/ update_cursor_world
    \/ update_blob_outline

Spec == Init /\ [][Next]_vars

\* update_blob_outline has had its turn in the current frame.
OutlineUpdated ==
    /\ frames > 0
    /\ \/ sched = "PreUpdate"
       \/ sched = "Update" /\ "update_blob_outline" \notin todo

\* C5 as stated: every physics tick marks the outline dirty, so once
\* update_blob_outline has run in a frame the polyline traces the particles
\* as the frame's ticks left them.
C5_OutlineFollowsPhysics == OutlineUpdated => polyline = OutlineOf(q_points)

----------------------------------------------------------------------------
(* point.rs: Point::verlet_step, stepped on a single particle.             *)

\* A step that does not advance previous_position: x_{t-1} stays behind.
verlet_step_stale(p, damping) ==
    LET x_t      == p.position
        x_tm1    == p.previous_position
        d        == VSub(x_t, x_tm1)
        vel_term == <<RoundDiv(d[1] * damping[1], damping[2]),
                      RoundDiv(d[2] * damping[1], damping[2])>>
        x_tp1    == VAdd(VAdd(x_t, vel_term), p.acceleration)
    IN  [p EXCEPT !.position = x_tp1, !.acceleration = ZERO]

\* self.verlet_step(dt, damping): the particle afterwards (dt * dt = 1;
\* damping is a fraction).  The value it returns is v, which is the new
\* position - previous_position.
verlet_step(p, damping) ==
    LET x_t      == p.position
        x_tm1    == p.previous_position
        d        == VSub(x_t, x_tm1)
        vel_term == <<RoundDiv(d[1] * damping[1], damping[2]),
                      RoundDiv(d[2] * damping[1], damping[2])>>
        x_tp1    == VAdd(VAdd(x_t, vel_term), p.acceleration)
        v        == VSub(x_tp1, x_t)
    IN  [p EXCEPT !.previous_position = VSub(x_tp1, v),
                  !.position = x_tp1,
                  !.acceleration = ZERO]

\* Steps a behaviour of SpecVerlet takes.
MaxSteps == 3

\* v0 * dt of the particle, in model units per tick.
VerletVelocities == {<<vx, vy>> : vx \in {-24, 0, 7}, vy \in {-10, 0, 24}}

VerletPositions == {<<0, 0>>, <<16, -48>>}

\* Damping factors per tick: none, and that of DAMPING_PER_SECOND.
VerletDampings == {<<1, 1>>, <<DampNum, DampDen>>}

\* The acceleration the caller has set on the particle before the first step.
VerletAccelerations == {ZERO, GRAVITY}

\* arg holds the construction, ret the particle, ticks the steps taken.
InitVerlet ==
    /\ arg \in [pos : VerletPositions, v0dt : VerletVelocities,
                damping : VerletDampings, acceleration : VerletAccelerations]
    /\ ret = [PointWithInitialVelocity(arg.pos, arg.v0dt, 0) EXCEPT
                 !.acceleration = arg.acceleration]
    /\ called = FALSE
    /\ q_points = <<>> /\ live = {} /\ q_tf = <<>>
    /\ soft = <<>> /\ half = ZERO /\ eff = <<>> /\ pressed = FALSE
    /\ dirty = FALSE /\ polyline = <<>>
    /\ NoSchedule
    /\ NoHistory

VerletStep ==
    /\ ticks < MaxSteps
    /\ ret' = verlet_step(ret, arg.damping)
    /\ ticks' = ticks + 1
    /\ called' = TRUE
    /\ UNCHANGED <<arg, q_points, live, q_tf, soft, half, eff, pressed, pc, iter,
                   before, iter_in, disp_accum, disp_weight, corrections, dirty,
                   polyline, schedVars>>

NextVerlet == VerletStep

SpecVerlet == InitVerlet /\ [][NextVerlet]_vars

\* C11: a particle made by with_initial_velocity(pos, v, dt) and stepped K
\* times with damping 1 and zero acceleration is at pos + K * v * dt, and
\* its position - previous_position is v * dt after every step.
C11_StraightLineMotion ==
    (arg.damping = <<1, 1>> /\ arg.acceleration = ZERO) =>
        /\ ret.position = <<arg.pos[1] + ticks * arg.v0dt[1],
                            arg.pos[2] + ticks * arg.v0dt[2]>>
        /\ VSub(ret.position, ret.previous_position) = arg.v0dt

\* Three undamped steps of a particle that moves on both axes.
C11_Witness ==
    /\ arg.damping = <<1, 1>> /\ arg.acceleration = ZERO
    /\ ticks = MaxSteps
    /\ arg.v0dt[1] # 0 /\ arg.v0dt[2] # 0
    /\ ret.position # arg.pos

----------------------------------------------------------------------------
(* C12 under SpecSolve: the phases of a tick and of a solver iteration.    *)

\* What an iteration that starts from the particles `pts` and accumulates
\* accum / weight / corr leaves behind, as C12 describes it: both constraints
\* read the ring as it was at the start, the average is applied, and the
\* effector projects the result if and only if the button is pressed.
IterationInOrder(pts, ring, accum, weight, corr, out) ==
    /\ ring = RingPositions(pts)
    /\ corr = dilation_corrections(ring)
    /\ \A i \in 1..Len(ring) :
          /\ accum[i] = VAdd(VAdd(EdgeCorrection(ring, i),
                                  VNeg(EdgeCorrection(ring, PrevIndex(i, Len(ring))))),
                             corr[i])
          /\ soft.points[i] \in live =>
                LET moved == VAdd(pts[soft.points[i]].position,
                                  <<RoundDiv(accum[i][1], weight[i]),
                                    RoundDiv(accum[i][2], weight[i])>>)
                IN  out[soft.points[i]].position =
                        IF pressed
                        THEN collide_point_with_swept_effector(moved, eff.prev, eff.curr,
                                                               eff.radius)
                        ELSE moved

\* One step of a tick, by the phase it starts in.
PhasesInOrder ==
    /\ pc = "idle" =>
          /\ pc' = "solve" /\ iter' = 0
          /\ q_tf' = q_tf
    /\ pc = "solve" =>
          /\ iter' = iter + 1
          /\ pc' = IF iter' = CONSTRAINT_ITERATIONS THEN "write" ELSE "solve"
          /\ q_tf' = q_tf
          /\ IterationInOrder(q_points, iter_in', disp_accum', disp_weight',
                              corrections', q_points')
    /\ pc = "write" =>
          /\ iter = CONSTRAINT_ITERATIONS
          /\ pc' = "idle"
          /\ q_points' = q_points
          /\ \A e \in live : q_tf'[e] = q_points[e].position

\* C12: a tick integrates first, then runs exactly CONSTRAINT_ITERATIONS
\* solver iterations, then writes the positions back; an iteration
\* accumulates the distance and the area corrections from the positions it
\* started with, applies their average, and then runs the effector
\* projection if and only if the left button is pressed.
C12_PhasesInOrder == [][PhasesInOrder]_vars

\* A tick has ended with the button pressed, and its last iteration pushed a
\* particle out of the effector.
C12_Witness ==
    /\ pc = "idle" /\ iter = CONSTRAINT_ITERATIONS /\ pressed
    /\ \E i \in 1..RingSize :
          /\ soft.points[i] \in live
          /\ disp_weight[i] > 0
          /\ q_tf[soft.points[i]] #
                VAdd(iter_in[i], <<RoundDiv(disp_accum[i][1], disp_weight[i]),
                                   RoundDiv(disp_accum[i][2], disp_weight[i])>>)

----------------------------------------------------------------------------
(* C13 under Spec: refreshes of the effector segment against fixed ticks.  *)

\* update_cursor_world has had its turn in the current frame.
CursorUpdated ==
    /\ frames > 0
    /\ \/ sched = "PreUpdate"
       \/ sched = "Update" /\ "update_cursor_world" \notin todo

\* Runs of update_cursor_world so far: one in every frame that is over, and
\* the one of the current frame once it has had its turn.
RefreshesDone ==
    IF frames = 0 THEN 0
    ELSE (frames - 1) + (IF CursorUpdated THEN 1 ELSE 0)

\* C13 as stated: the segment is refreshed before each tick, and no two
\* ticks use the same un-refreshed segment, so the ticks started never
\* outnumber the refreshes.
C13_RefreshedBeforeEachTick == ticks <= RefreshesDone

----------------------------------------------------------------------------
(* C14 under Spec: what the constraint and effector passes write.          *)

\* The step is the integration pass of a tick.
IntegrationStep == pc = "idle" /\ pc' = "solve"

\* Particle e differs between the two states of a step in its position only.
OnlyPositionWritten(e) ==
    q_points'[e] = [q_points[e] EXCEPT !.position = q_points'[e].position]

\* C14: every step other than the integration pass (a solver iteration
\* with its in-loop projection, effector_swept_collision_system, and the
\* systems of Update) leaves previous_position, acceleration, mass, radius
\* and bounciness of every particle as they were.
C14_OnlyIntegrationWritesPrevious ==
    [][IntegrationStep \/ \A e \in DOMAIN q_points : OnlyPositionWritten(e)]_vars

\* effector_swept_collision_system has just pushed a particle away from
\* where the last write-back (or the spawn) had left it.
C14_Witness ==
    /\ sched = "softbody_step" /\ pc = "idle" /\ pressed
    /\ \E e \in live :
          /\ q_points[e].position # q_tf[e]
          /\ q_points[e].previous_position # q_points[e].position

----------------------------------------------------------------------------
(* C15 under SpecStep: a particle wider than the window on an axis.        *)

\* The clamp range of particle p on axis k is inverted: lower limit
\* -half + radius above upper limit half - radius.
InvertedOnAxis(p, k) == p.radius > half[k]

\* C15 as stated: with an inverted range the coordinate oscillates about
\* the origin: every integration pass leaves it at one of the two limits,
\* on the other side of the origin from where the tick found it.
C15_InvertedClampOscillates ==
    JustIntegrated =>
        \A e \in live : \A k \in 1..2 :
            (InvertedOnAxis(before[e], k) /\ before[e].position[k] # 0) =>
                /\ Abs(q_points[e].position[k]) = before[e].radius - half[k]
                /\ Sgn(q_points[e].position[k]) = -Sgn(before[e].position[k])

\* C15 (amended): with an inverted range the integration pass completes and
\* leaves the coordinate at the upper limit half - radius, on the negative
\* side of the origin, in every tick, wherever the particle came from.
C15_InvertedClampPinsToUpperLimit ==
    JustIntegrated =>
        \A e \in live : \A k \in 1..2 :
            InvertedOnAxis(before[e], k) =>
                q_points[e].position[k] = half[k] - before[e].radius

\* The second tick has integrated a particle wider than the window that the
\* tick found left of the origin, and left it there.
C15_Witness ==
    /\ JustIntegrated /\ ticks = 2
    /\ \E e \in live :
          /\ InvertedOnAxis(before[e], 1)
          /\ before[e].position[1] < 0
          /\ q_points[e].position[1] = half[1] - before[e].radius

----------------------------------------------------------------------------
(* Rings of every length from 0: one tick of softbody_step on a body whose *)
(* particle list has num_points entries.                                   *)

MaxN == 3

RingGrid == {0, 88} \X {0, 88}

\* Every ring of 0..MaxN particles on the corners of one grid cell (two
\* particles may share a corner: an edge of length 0).
AnyRings == UNION {[1..n -> RingGrid] : n \in 0..MaxN}

InitRing ==
    /\ \E ring \in AnyRings :
        LET n == Len(ring)
        IN  /\ q_points = [e \in 1..n |-> RestingPoint(ring[e], e - 1)]
            /\ q_tf = [e \in 1..n |-> ring[e]]
            /\ soft = [SoftBodyNew(n, 16, PUFFINESS) EXCEPT !.points = [e \in 1..n |-> e]]
            /\ live = 1..n
    /\ pressed \in BOOLEAN
    /\ half = <<2048, 2048>>
    /\ eff = [EffectorDefault EXCEPT !.prev = <<-16, 40>>, !.curr = <<40, 40>>]
    /\ pc = "idle" /\ iter = 0 /\ ticks = MaxTicks - 1
    /\ before = <<>> /\ iter_in = <<>>
    /\ disp_accum = <<>> /\ disp_weight = <<>> /\ corrections = <<>>
    /\ dirty = TRUE /\ polyline = <<>>
    /\ NoSchedule
    /\ NoCall

SpecRing == InitRing /\ [][NextSolve]_vars

\* The indices a tick computes for a ring of n particles: the loop index
\* i of every `for i in 0..n`, i_next = (i + 1) % n of the distance pass and
\* of polygon_area_signed, and prev = (i + n - 1) % n, next = (i + 1) % n of
\* dilation_corrections (all counted from 1 here).
IndicesUsed(n) ==
    UNION {{i, NextIndex(i, n), PrevIndex(i, n)} : i \in 1..n}

\* The buffers of the last iteration have one entry per ring index.
BuffersMatchRing ==
    iter > 0 =>
        /\ DOMAIN iter_in = 1..soft.num_points
        /\ DOMAIN disp_accum = 1..soft.num_points
        /\ DOMAIN disp_weight = 1..soft.num_points
        /\ DOMAIN corrections = 1..soft.num_points

\* The next solver iteration is defined on the state it starts from: its
\* passes give one entry per ring index and a particle for every entity.
NextIterationDefined ==
    pc = "solve" =>
        LET poly == RingPositions(q_points)
            acc  == Accumulated(poly)
        IN  /\ DOMAIN acc.accum = 1..soft.num_points
            /\ DOMAIN acc.weight = 1..soft.num_points
            /\ DOMAIN acc.corrections = 1..soft.num_points
            /\ DOMAIN Projected(Applied(q_points, acc)) = DOMAIN q_points

\* The tick goes through all its iterations and ends with the write-back.
TickRunsToEnd ==
    /\ iter <= CONSTRAINT_ITERATIONS
    /\ pc = "write" => iter = CONSTRAINT_ITERATIONS
    /\ pc = "idle" /\ ticks = MaxTicks =>
           /\ iter = CONSTRAINT_ITERATIONS
           /\ q_tf = [e \in DOMAIN q_tf |-> q_points[e].position]

\* C16: for a ring of any length N >= 0 whose particle list has N entries,
\* every index a tick uses lies in the ring's range (1..N here, 0..N-1 in
\* the code), the successor of the last index is the first and the
\* predecessor of the first is the last, the buffers have N entries, and
\* every step of the tick is defined, up to the write-back.
C16_IndicesCyclicAndInRange ==
    LET n == soft.num_points
    IN  Len(soft.points) = n =>
            /\ IndicesUsed(n) \subseteq 1..n
            /\ n >= 1 => NextIndex(n, n) = 1 /\ PrevIndex(1, n) = n
            /\ \A i \in 1..n : PrevIndex(NextIndex(i, n), n) = i
            /\ BuffersMatchRing
            /\ NextIterationDefined
            /\ TickRunsToEnd

\* A ring of two particles has finished its tick, and in the last
\* iteration both of its edges (0 -> 1 and the wrapped 1 -> 0) were
\* stretched.
C16_Witness ==
    /\ soft.num_points = 2 /\ Len(soft.points) = 2
    /\ pc = "idle" /\ ticks = MaxTicks /\ iter = CONSTRAINT_ITERATIONS
    /\ disp_weight = <<3, 3>>
    /\ q_tf = [e \in 1..2 |-> q_points[e].position]

\* The degenerate rings finish their tick as well.
C16_EmptyRingDone ==
    soft.num_points = 0 /\ pc = "idle" /\ ticks = MaxTicks /\ iter = CONSTRAINT_ITERATIONS

C16_SingleRingDone ==
    soft.num_points = 1 /\ pc = "idle" /\ ticks = MaxTicks /\ disp_weight = <<1>>

----------------------------------------------------------------------------
(* The contribution counters at the apply step.                            *)

\* The stretched edges that touch ring index i in the ring `poly`: its own
\* edge i -> i_next and the edge before it.
StretchedEdgesAt(poly, i) ==
    LET n       == Len(poly)
        edge(j) == VSub(poly[NextIndex(j, n)], poly[j])
        own     == IF Stretched(edge(i), soft.chord_length) THEN 1 ELSE 0
        prev    == IF Stretched(edge(PrevIndex(i, n)), soft.chord_length) THEN 1 ELSE 0
    IN  own + prev

\* disp_accum[i] / disp_weight[i] with a divisor given from outside.
AverageOver(i, divisor) ==
    <<RoundDiv(disp_accum[i][1], divisor), RoundDiv(disp_accum[i][2], divisor)>>

\* C17: when the apply step of an iteration runs, the contribution counter
\* of every ring index is the number k of stretched edges at it plus one
\* for the area constraint, so it lies in 1..3 and is never 0; a particle
\* that resolves is moved by the accumulated sum divided by k + 1 (seen
\* on the committed position when no effector projection follows).
C17_CounterIsEdgesPlusOne ==
    iter > 0 =>
        \A i \in 1..soft.num_points :
            LET k == StretchedEdgesAt(iter_in, i)
                e == soft.points[i]
            IN  /\ k \in 0..2
                /\ disp_weight[i] = k + 1
                /\ disp_weight[i] \in 1..3
                /\ (~pressed /\ e \in live) =>
                       q_points[e].position = VAdd(iter_in[i], AverageOver(i, k + 1))

\* An iteration has run on a ring in which one particle has two stretched
\* edges (counter 3) and moved by a third of its sum, and another has none
\* and a zero area correction (counter 1, not 0).
C17_Witness ==
    /\ iter > 0 /\ ~pressed
    /\ \E i \in 1..soft.num_points :
          /\ disp_weight[i] = 3
          /\ soft.points[i] \in live
          /\ AverageOver(i, 3) # ZERO
          /\ AverageOver(i, 3) # AverageOver(i, 2)
          /\ q_points[soft.points[i]].position = VAdd(iter_in[i], AverageOver(i, 3))
    /\ \E j \in 1..soft.num_points :
          /\ disp_weight[j] = 1
          /\ corrections[j] = ZERO
          /\ StretchedEdgesAt(iter_in, j) = 0

====
